---- MODULE Spec2Model ----
(***************************************************************************)
(* Batch generation dispatcher of banana-batch                             *)
(* (src/services/geminiService.ts): generateImageBatchStream (Gemini SDK   *)
(* and Gemini proxy) and generateImageBatchStreamOpenAI.                   *)
(*                                                                         *)
(* JavaScript runs every piece of code between two awaits to completion,   *)
(* so one action of this model is one such piece: the synchronous start of *)
(* the batch (every worker up to its first await), the continuation of a   *)
(* worker after its provider call settles, the continuation of a worker    *)
(* after its backoff timer fires, the caller aborting the signal, and the  *)
(* resolution of Promise.all.  Calls to logError write to the console only *)
(* and are not part of the state.                                          *)
(***************************************************************************)
EXTENDS Integers, Sequences, FiniteSets, TLC

VARIABLES
    variant,        \* "sdk" | "proxy" (generateImageBatchStream), "openai"
    provider,       \* provider stub: "rich" | "plain" | "reliable"
    batchSize,      \* settings.batchSize
    prompt,         \* the prompt argument ("" when there is none)
    history,        \* the history argument: the prior messages
    uploadedImages, \* the uploadedImages argument
    opState,        \* the returned promise: "idle" (not called) | "running"
                    \* (pending) | "resolved" | "rejected"
    settings,       \* the settings argument: model, aspectRatio, resolution
    userParts,      \* const userParts / userContent: the outbound message
    callConfig,     \* const modelName and imageConfig / model and extraBody
    sent,           \* what the provider calls made so far carried
    aborted,        \* signal.aborted
    taskQueue,      \* const taskQueue (shared by the workers)
    completedCount, \* let completedCount (shared by the workers)
    workers,        \* worker i: [pc, index, attempt]
    slotLog,        \* per slot index: what was done and emitted for it, in order
    progressLog,    \* the onProgress(completed, total) calls, in order
    dataUri,        \* extractBase64Data: its argument
    imageData,      \* extractBase64Data: <<what it returned>>, <<>> before the call
    endpointArgs,   \* buildGeminiEndpoint: its arguments [baseUrl, modelName]
    endpoint,       \* buildGeminiEndpoint: <<what it returned>>, <<>> before the call
    providerConfig, \* useProviderConfig: the state of the hook
    localStorage,   \* useProviderConfig: the browser's storage, <<>> for no entry
    lastUpdate,       \* useProviderConfig: the last call of an update function
    other           \* a second invocation of the batch function: its arguments,
                    \* its promise, its signal and its locals

\* The arguments of the call.
args == <<variant, provider, batchSize, prompt, history, uploadedImages,
          settings>>

\* What the invocation builds for its provider calls before it starts workers.
message == <<userParts, callConfig>>

\* What the helper functions are studied on, and the second invocation.
hook == <<providerConfig, localStorage, lastUpdate>>

apart == <<dataUri, imageData, endpointArgs, endpoint, hook, other>>

\* The invocation of the batch function: arguments, promise, signal, locals.
own == <<args, opState, message, sent, aborted, taskQueue, completedCount,
         workers, slotLog, progressLog>>

vars == <<own, apart>>

\* ------------------------------------------------------------ constants

MAX_CONCURRENT_REQUESTS == 10

MAX_RETRIES == 3

\* Largest batch size explored with a provider whose responses either fail or
\* carry exactly one image.
MaxBatch == 3

\* Largest batch size explored with a provider that may answer with any
\* response shape (text parts, several image parts).
MaxRichBatch == 1

\* Largest batch size below the concurrency cap explored, with a provider
\* whose responses fail or carry one image, together with the big batch.
MaxPoolBatch == 2

\* Largest number of prior messages, and of uploaded images, of a request.
MaxImages == 2

\* Longest path of a proxy base URL, in pieces.
MaxPath == 4

\* Longest base64 payload of a data URI.
MaxPayload == 2

\* Largest batch size explored next to a second invocation.
MaxTwoBatch == 1

\* Largest batch size explored under fairness.
MaxLiveBatch == 2

\* A batch larger than the concurrency cap, so that workers loop for more slots.
BigBatch == MAX_CONCURRENT_REQUESTS + 1

Variants == {"sdk", "proxy", "openai"}

Min(a, b) == IF a <= b THEN a ELSE b

RECURSIVE Pow2(_)
Pow2(n) == IF n = 0 THEN 1 ELSE 2 * Pow2(n - 1)

\* ------------------------------------------------------------ events

Ev(e, n) == [e |-> e, n |-> n]

Count(log, e) == Cardinality({j \in 1..Len(log) : log[j].e = e})

\* ------------------------------------------------------------ provider responses

\* Content of a response: its parts, in response order.
ContentShapes ==
    {<<"image">>, <<"image", "image">>, <<"text">>, <<"text", "image">>}

Resp(k, p) == [kind |-> k, parts |-> p]

\* What generateContent / the proxy fetch can settle with.
GeminiResponses ==
    {Resp(k, <<>>) : k \in {"throw", "nocandidate", "safety", "noparts"}}
        \cup {Resp("parts", p) : p \in ContentShapes}

\* What chat.completions.create can settle with.
OpenAIResponses ==
    {Resp(k, <<>>) : k \in {"throw", "nochoice", "content_filter", "nocontent"}}
        \cup {Resp("string", p) : p \in ContentShapes \ {<<"image", "image">>}}
        \cup {Resp("array", p) : p \in ContentShapes}

\* fetch rejects with an AbortError once its signal is aborted.
AbortError == Resp("abort", <<>>)

RECURSIVE PartEvents(_)
PartEvents(parts) ==
    IF parts = <<>> THEN <<>>
    ELSE <<Ev(Head(parts), 1)>> \o PartEvents(Tail(parts))

HasImage(parts) == \E j \in 1..Len(parts) : parts[j] = "image"

\* The try block of the Gemini worker after the call settled:
\* the events it emits and whether it throws.
GeminiHandle(resp) ==
    IF resp.kind # "parts"
    THEN [events |-> <<>>, threw |-> TRUE]
    ELSE [events |-> PartEvents(resp.parts), threw |-> ~HasImage(resp.parts)]

\* The try block of the OpenAI worker after the call settled.
OpenAIHandle(resp) ==
    CASE resp.kind = "string" ->
            IF HasImage(resp.parts)
            THEN [events |-> <<Ev("image", 1)>>, threw |-> FALSE]
            ELSE [events |-> <<Ev("text", 1)>>, threw |-> TRUE]
      [] resp.kind = "array" ->
            [events |-> PartEvents(resp.parts), threw |-> ~HasImage(resp.parts)]
      [] OTHER -> [events |-> <<>>, threw |-> TRUE]

Handle(v, resp) == IF v = "openai" THEN OpenAIHandle(resp) ELSE GeminiHandle(resp)

Family(v) == IF v = "openai" THEN OpenAIResponses ELSE GeminiResponses

\* The provider stubs a batch is run against.
Stub(v, prov) ==
    CASE prov = "reliable" -> {r \in Family(v) : r.parts = <<"image">>}
      [] prov = "plain" -> {r \in Family(v) : r.parts \in {<<>>, <<"image">>}}
      [] OTHER -> Family(v)

\* Only the proxy fetch is given the signal.
PassesSignal(v) == v = "proxy"

\* The responses an in-flight call of variant v can deliver to its worker.
Deliverable(v, prov, ab) ==
    IF PassesSignal(v) /\ ab THEN {AbortError}
    ELSE Stub(v, prov)

\* ------------------------------------------------------------ data URIs

\* Strings are sequences of characters.
DataPrefix == <<"d", "a", "t", "a", ":">>

Base64Marker == <<";", "b", "a", "s", "e", "6", "4", ",">>

HasPrefix(str, pre) == Len(str) >= Len(pre) /\ SubSeq(str, 1, Len(pre)) = pre

\* The characters "." does not match.
LineTerminators == {"\n", "\r"}

NoMatch == [null |-> TRUE, mimeType |-> <<>>, base64Data |-> <<>>]

ImageInput(mime, data) == [null |-> FALSE, mimeType |-> mime, base64Data |-> data]

DefaultMime == <<"i", "m", "a", "g", "e", "/", "p", "n", "g">>

\* dataUri.match(/^data:([^;]+);base64,(.+)$/): the first group runs up to the
\* first ";" and is not empty, the marker follows it at once, the second
\* group is the rest, not empty and without line terminators.
MatchDataUri(uri) ==
    IF ~HasPrefix(uri, DataPrefix) THEN NoMatch
    ELSE LET rest  == SubSeq(uri, Len(DataPrefix) + 1, Len(uri))
             semis == {i \in 1..Len(rest) : rest[i] = ";"}
         IN IF semis = {} THEN NoMatch
            ELSE LET k    == CHOOSE i \in semis : \A j \in semis : i <= j
                     mime == SubSeq(rest, 1, k - 1)
                     tail == SubSeq(rest, k, Len(rest))
                     data == SubSeq(tail, Len(Base64Marker) + 1, Len(tail))
                 IN IF mime = <<>> \/ ~HasPrefix(tail, Base64Marker) THEN NoMatch
                    ELSE IF data = <<>> THEN NoMatch
                    ELSE IF \E i \in 1..Len(data) : data[i] \in LineTerminators
                         THEN NoMatch
                    ELSE ImageInput(mime, data)

\* Mutant of extractBase64Data: the mime type of the URI is not used.
extractBase64DataDefaultMime(uri) ==
    LET base64Match == MatchDataUri(uri)
    IN IF base64Match.null THEN NoMatch
       ELSE IF Len(base64Match.base64Data) = 0 THEN NoMatch
       ELSE ImageInput(DefaultMime, base64Match.base64Data)

\* extractBase64Data
extractBase64Data(uri) ==
    LET base64Match == MatchDataUri(uri)
    IN IF base64Match.null THEN NoMatch
       ELSE LET finalMimeType == IF base64Match.mimeType = <<>> THEN DefaultMime
                                 ELSE base64Match.mimeType
            IN IF Len(base64Match.base64Data) = 0 THEN NoMatch
               ELSE ImageInput(finalMimeType, base64Match.base64Data)

\* `data:${mime};base64,${data}`
EncodeDataUri(mime, data) == DataPrefix \o mime \o Base64Marker \o data

\* Mime types: a type and a subtype.
MimeTypes ==
    {<<"a", "/", "b">>, <<"a", "/", "b", "+", "c">>, DefaultMime}

Base64Chars == {"A", "/", "="}

Payloads == UNION {[1..n -> Base64Chars] : n \in 1..MaxPayload}

\* The strings extractBase64Data is applied to: data URIs of images, and
\* strings that are not: the payload alone, a URI without the marker, one
\* with nothing after the marker, one without the "data:" in front, one
\* without a mime type, one whose payload is broken over two lines.
DataUris ==
    {EncodeDataUri(m, d) : m \in MimeTypes, d \in Payloads}
        \cup Payloads \cup {<<>>}
        \cup {DataPrefix \o m \o <<",">> \o d : m \in MimeTypes, d \in Payloads}
        \cup {DataPrefix \o m \o <<";", "b", "a", "s", "e", "6", "4">> \o d :
                  m \in MimeTypes, d \in Payloads}
        \cup {EncodeDataUri(m, <<>>) : m \in MimeTypes}
        \cup {m \o Base64Marker \o d : m \in MimeTypes, d \in Payloads}
        \cup {EncodeDataUri(<<>>, d) : d \in Payloads}
        \cup {EncodeDataUri(m, d \o <<"\n">> \o d) : m \in MimeTypes, d \in Payloads}

\* ------------------------------------------------------------ endpoints

\* A URL is a sequence of pieces: "/" and " " stand for themselves, every
\* other piece is a run of characters that are neither.
GenerateContent == ":generateContent"

RECURSIVE TrimLeft(_)
TrimLeft(url) ==
    IF url # <<>> /\ Head(url) = " " THEN TrimLeft(Tail(url)) ELSE url

\* The url without the pieces c at its end.
RECURSIVE StripEnd(_, _)
StripEnd(url, c) ==
    IF url # <<>> /\ url[Len(url)] = c
    THEN StripEnd(SubSeq(url, 1, Len(url) - 1), c)
    ELSE url

\* baseUrl.trim()
Trim(url) == StripEnd(TrimLeft(url), " ")

Includes(url, piece) == \E i \in 1..Len(url) : url[i] = piece

EndsWith(url, suffix) ==
    /\ Len(url) >= Len(suffix)
    /\ SubSeq(url, Len(url) - Len(suffix) + 1, Len(url)) = suffix

\* /\/models\/[^/]+$/.test(url)
EndsWithModel(url) ==
    \E k \in 1..(Len(url) - 3) :
        /\ \A j \in (Len(url) - k + 1)..Len(url) : url[j] # "/"
        /\ EndsWith(SubSeq(url, 1, Len(url) - k), <<"/", "models", "/">>)

\* Mutant of buildGeminiEndpoint: a base that already holds the suffix is
\* not returned at once.
buildGeminiEndpointNoEarlyReturn(baseUrl, modelName) ==
    LET normalized == StripEnd(Trim(baseUrl), "/")
    IN IF Trim(baseUrl) = <<>> THEN <<>>
       ELSE IF EndsWithModel(normalized)
            THEN normalized \o <<GenerateContent>>
       ELSE IF EndsWith(normalized, <<"/", "models">>)
            THEN normalized \o <<"/">> \o modelName \o <<GenerateContent>>
       ELSE IF EndsWith(normalized, <<"/", "v1beta">>)
               \/ EndsWith(normalized, <<"/", "v1">>)
            THEN normalized \o <<"/", "models", "/">> \o modelName
                            \o <<GenerateContent>>
       ELSE normalized \o <<"/", "v1beta", "/", "models", "/">> \o modelName
                       \o <<GenerateContent>>

\* buildGeminiEndpoint
buildGeminiEndpoint(baseUrl, modelName) ==
    LET normalized == StripEnd(Trim(baseUrl), "/")
    IN IF Trim(baseUrl) = <<>> THEN <<>>
       ELSE IF Includes(normalized, GenerateContent) THEN normalized
       ELSE IF EndsWithModel(normalized)
            THEN normalized \o <<GenerateContent>>
       ELSE IF EndsWith(normalized, <<"/", "models">>)
            THEN normalized \o <<"/">> \o modelName \o <<GenerateContent>>
       ELSE IF EndsWith(normalized, <<"/", "v1beta">>)
               \/ EndsWith(normalized, <<"/", "v1">>)
            THEN normalized \o <<"/", "models", "/">> \o modelName
                            \o <<GenerateContent>>
       ELSE normalized \o <<"/", "v1beta", "/", "models", "/">> \o modelName
                       \o <<GenerateContent>>

\* Scheme and host of the proxy.
Origin == <<"https:", "/", "/", "host">>

PathPieces == {"/", "v1", "v1beta", "models", "m", GenerateContent}

Paths == UNION {[1..n -> PathPieces] : n \in 0..MaxPath}

\* The base URLs explored: the origin and a path, as typed or with blanks
\* around it, and the blank, the empty string and the lone slash.
BaseUrls ==
    {Origin \o path : path \in Paths}
        \cup {<<" ">> \o Origin \o path \o <<" ">> : path \in Paths}
        \cup {<<>>, <<" ">>, <<"/">>}

ModelNames == {<<"gemini">>}

\* ------------------------------------------------------------ provider settings

\* Strings are atoms, "" the empty one; a base URL is a sequence of pieces as
\* above, <<>> the empty one.  An entry of the storage, and the baseUrl of the
\* configuration, is <<>> (null, undefined) or <<value>>.
PROVIDER == "app_provider"

GEMINI_API_KEY == "user_gemini_api_key"

GEMINI_BASE_URL == "user_gemini_base_url"

GEMINI_MODEL == "user_gemini_model"

OPENAI_API_KEY == "user_openai_api_key"

OPENAI_BASE_URL == "user_openai_base_url"

OPENAI_MODEL == "user_openai_model"

STORAGE_KEYS ==
    {PROVIDER, GEMINI_API_KEY, GEMINI_BASE_URL, GEMINI_MODEL, OPENAI_API_KEY,
     OPENAI_BASE_URL, OPENAI_MODEL}

DEFAULT_OPENAI_BASE_URL == <<"https:", "/", "/", "api.openai.com", "/", "v1">>

DEFAULT_OPENAI_MODEL == "gemini-3-pro-image-preview"

DEFAULT_GEMINI_MODEL == "gemini-3-pro-image-preview"

\* localStorage.setItem, localStorage.removeItem
SetItem(store, key, value) == [store EXCEPT ![key] = <<value>>]

RemoveItem(store, key) == [store EXCEPT ![key] = <<>>]

\* localStorage.getItem(key) || fallback: the fallback for no entry and for an
\* entry that holds the empty value.
GetItemOr(store, key, empty, fallback) ==
    IF store[key] = <<>> \/ store[key][1] = empty THEN fallback
    ELSE store[key][1]

getStoredGeminiBaseUrl(store) ==
    IF store[GEMINI_BASE_URL] = <<>> \/ store[GEMINI_BASE_URL][1] = <<>>
    THEN <<>>
    ELSE IF Trim(store[GEMINI_BASE_URL][1]) # <<>>
         THEN <<Trim(store[GEMINI_BASE_URL][1])>>
         ELSE <<>>

\* What the hook reads from the storage for the given provider.
Stored(store, selected) ==
    IF selected = "openai"
    THEN [provider |-> "openai",
          apiKey |-> GetItemOr(store, OPENAI_API_KEY, "", ""),
          baseUrl |-> <<GetItemOr(store, OPENAI_BASE_URL, <<>>,
                                  DEFAULT_OPENAI_BASE_URL)>>,
          model |-> GetItemOr(store, OPENAI_MODEL, "", DEFAULT_OPENAI_MODEL)]
    ELSE [provider |-> selected,
          apiKey |-> GetItemOr(store, GEMINI_API_KEY, "", ""),
          baseUrl |-> getStoredGeminiBaseUrl(store),
          model |-> GetItemOr(store, GEMINI_MODEL, "", DEFAULT_GEMINI_MODEL)]

\* The initializer of useState.
Initializer(store) ==
    Stored(store, IF store[PROVIDER] = <<"openai">> THEN "openai" ELSE "gemini")

\* What a call of an update function leaves: the state of the hook, the
\* storage, and what it threw.
Outcome(config, store, threw) == [config |-> config, store |-> store, threw |-> threw]

updateProvider(prev, store, selected) ==
    Outcome(Stored(store, selected), SetItem(store, PROVIDER, selected), "none")

\* Mutant of updateApiKey: the key is stored before it is validated.
updateApiKeyStoresFirst(prev, store, key, validation) ==
    Outcome(IF validation = "ok" \/ key = ""
            THEN [prev EXCEPT !.apiKey = key] ELSE prev,
            IF key = ""
            THEN RemoveItem(store, IF prev.provider = "openai"
                                   THEN OPENAI_API_KEY ELSE GEMINI_API_KEY)
            ELSE SetItem(store, IF prev.provider = "openai"
                                THEN OPENAI_API_KEY ELSE GEMINI_API_KEY, key),
            IF validation = "ok" \/ key = "" THEN "none" ELSE "ValidationError")

\* validation is what validateApiKey(key) does: "ok" when it returns, else
\* the kind of error it throws.
updateApiKey(prev, store, key, validation) ==
    LET entry == IF prev.provider = "openai" THEN OPENAI_API_KEY
                 ELSE GEMINI_API_KEY
    IN IF key = ""
       THEN Outcome([prev EXCEPT !.apiKey = ""], RemoveItem(store, entry), "none")
       ELSE IF validation = "ok"
            THEN Outcome([prev EXCEPT !.apiKey = key],
                         SetItem(store, entry, key), "none")
            ELSE Outcome(prev, store, "ValidationError")

updateBaseUrl(prev, store, url) ==
    IF prev.provider = "openai"
    THEN LET value == IF url = <<>> THEN DEFAULT_OPENAI_BASE_URL ELSE url
         IN Outcome([prev EXCEPT !.baseUrl = <<value>>],
                    SetItem(store, OPENAI_BASE_URL, value), "none")
    ELSE IF Trim(url) = <<>>
         THEN Outcome([prev EXCEPT !.baseUrl = <<>>],
                      RemoveItem(store, GEMINI_BASE_URL), "none")
         ELSE Outcome([prev EXCEPT !.baseUrl = <<Trim(url)>>],
                      SetItem(store, GEMINI_BASE_URL, Trim(url)), "none")

\* Mutant of updateModel: the model is stored for both providers.
updateModelBothProviders(prev, store, model) ==
    Outcome([prev EXCEPT !.model = model],
            SetItem(SetItem(store, OPENAI_MODEL, model), GEMINI_MODEL, model),
            "none")

updateModel(prev, store, model) ==
    Outcome([prev EXCEPT !.model = model],
            SetItem(store, IF prev.provider = "openai" THEN OPENAI_MODEL
                           ELSE GEMINI_MODEL, model),
            "none")

\* The arguments explored.
Providers == {"gemini", "openai"}

ApiKeys == {"", "key-1", "key-2"}

Validations == {"ok", "ValidationError", "Error"}

Urls == {<<>>, <<" ">>, <<"https:", "/", "/", "proxy">>,
         <<" ", "https:", "/", "/", "proxy", " ">>}

ModelIds == {"", "model-1"}

\* What the storage may hold when the hook is mounted: nothing, or what an
\* earlier session left, under a provider entry that may be anything.
Storages ==
    {[key \in STORAGE_KEYS |->
         CASE key = PROVIDER -> prov
           [] key = GEMINI_API_KEY -> gkey
           [] key = OPENAI_API_KEY -> okey
           [] key = GEMINI_BASE_URL -> gurl
           [] key = OPENAI_BASE_URL -> ourl
           [] OTHER -> mod] :
        prov \in {<<>>, <<"gemini">>, <<"openai">>, <<"other">>},
        gkey \in {<<>>, <<"key-1">>},
        okey \in {<<>>, <<"key-2">>},
        gurl \in {<<>>, <<(<<" ">>)>>, <<(<<"https:", "/", "/", "proxy">>)>>},
        ourl \in {<<>>, <<(<<"https:", "/", "/", "proxy">>)>>},
        mod  \in {<<>>, <<"model-1">>}}

NoCall == [op |-> "none", threw |-> "none", validation |-> "ok"]

\* The hook is not mounted.
NoHook ==
    /\ localStorage = [key \in STORAGE_KEYS |-> <<>>]
    /\ providerConfig = Initializer(localStorage)
    /\ lastUpdate = NoCall

\* ------------------------------------------------------------ the request

\* An image as the request carries it.  data stands for its data URI: "ok" is
\* a well-formed URI of acceptable size, "big" a well-formed URI whose
\* estimated size exceeds VALIDATION_LIMITS.MAX_IMAGE_SIZE_MB, "bad" a string
\* that is not a base64 data URI.
Image(id, data) == [id |-> id, data |-> data]

ImageData == {"ok", "big", "bad"}

\* A prior message: its role, whether it has a selectedImageId, and the image
\* that id names with its status.
Msg(role, selected, status, img) ==
    [role |-> role, selected |-> selected, status |-> status, img |-> img]

\* The prior messages explored at position j of the history.
MsgsAt(j) ==
    {Msg("user", FALSE, "success", Image(j, "ok")),
     Msg("model", TRUE, "error", Image(j, "ok"))}
        \cup {Msg("model", TRUE, "success", Image(j, d)) : d \in ImageData}

Histories ==
    UNION {{h \in [1..n -> UNION {MsgsAt(j) : j \in 1..n}] :
               \A j \in 1..n : h[j] \in MsgsAt(j)} : n \in 0..MaxImages}

\* Uploaded images are numbered after the images of the history.
UploadBase == 10

Uploads ==
    UNION {{u \in [1..n -> {Image(UploadBase + j, d) :
                               j \in 1..n, d \in ImageData}] :
               \A j \in 1..n : u[j].id = UploadBase + j} : n \in 0..MaxImages}

Request(p, h, u) == [prompt |-> p, history |-> h, uploadedImages |-> u]

\* The prompts explored: none, one without and one with a reference to an
\* image by its number.
Prompts == {"", "draw", "image 1"}

Requests == {Request(p, h, u) : p \in Prompts, h \in Histories, u \in Uploads}

\* A prompt, no prior message, no uploaded image.
TextRequests == {Request("draw", <<>>, <<>>)}

Null == "null"

\* extractBase64Data: null when the string does not match the data-URI pattern.
ExtractBase64Data(img) == IF img.data = "bad" THEN Null ELSE img.data

\* estimatedSizeMB > VALIDATION_LIMITS.MAX_IMAGE_SIZE_MB
TooLarge(img) == img.data = "big"

\* An image that is neither skipped as invalid nor skipped as too large.
Usable(img) == ExtractBase64Data(img) # Null /\ ~TooLarge(img)

\* imageRefPattern.test(prompt)
HasImageReference(p) == p \in {"image 1"}

\* A text: the labels of the image-order legend put before the prompt (none
\* when the prompt is sent as it is), then the prompt.
Text(labels, p) == [legend |-> labels, prompt |-> p]

\* imageLabels: one label per image input, numbered from 1.
ImageLabels(imageCount) == [i \in 1..imageCount |-> i]

\* enhancedPrompt
EnhancedPrompt(p, imageInputs) ==
    IF Len(imageInputs) > 1 /\ HasImageReference(p)
    THEN Text(ImageLabels(Len(imageInputs)), p)
    ELSE Text(<<>>, p)

TextPart(text) == [type |-> "text", id |-> 0, text |-> text]

ImagePart(img) == [type |-> "image", id |-> img.id]

ImageParts(imgs) == [j \in 1..Len(imgs) |-> ImagePart(imgs[j])]

\* collectSelectedImages
CollectSelectedImages(messages) ==
    LET used == SelectSeq(messages, LAMBDA m :
                    /\ m.role = "model" /\ m.selected
                    /\ m.status = "success"
                    /\ Usable(m.img))
    IN [j \in 1..Len(used) |-> used[j].img]

\* The loop over uploadedImages.
UploadedImageInputs(uploaded) == SelectSeq(uploaded, Usable)

\* The outcome of the part of the function before the workers.
Accept(parts) == [ok |-> TRUE, parts |-> parts, error |-> "none"]

Reject(error) == [ok |-> FALSE, parts |-> <<>>, error |-> error]

\* Mutant of NoValidUpload: zero surviving uploads are not looked for.
NoValidUploadIgnored(uploaded, inputs) == FALSE

\* if (uploadedImageInputs.length === 0 && uploadedImages.length > 0)
NoValidUpload(uploaded, inputs) == Len(inputs) = 0 /\ Len(uploaded) > 0

\* Mutant of NoParts: an empty message is let through.
NoPartsIgnored(parts) == FALSE

\* if (userParts.length === 0), if (userContent.length === 0)
NoParts(parts) == Len(parts) = 0

\* Mutant of GeminiParts: the images are pushed before the text.
GeminiPartsImagesFirst(p, imageInputs) ==
    ImageParts(imageInputs)
        \o (IF p # "" THEN <<TextPart(EnhancedPrompt(p, imageInputs))>>
            ELSE <<>>)

\* userParts: the text when there is a prompt, then all the image inputs.
GeminiParts(p, imageInputs) ==
    (IF p # "" THEN <<TextPart(EnhancedPrompt(p, imageInputs))>> ELSE <<>>)
        \o ImageParts(imageInputs)

\* generateImageBatchStream up to the creation of the task queue.
GeminiPreflight(p, messages, uploaded) ==
    LET selectedImages == CollectSelectedImages(messages)
        uploadedImageInputs == UploadedImageInputs(uploaded)
        imageInputs == selectedImages \o uploadedImageInputs
        parts == GeminiParts(p, imageInputs)
    IN IF NoValidUpload(uploaded, uploadedImageInputs)
       THEN Reject("ImageProcessingError")
       ELSE IF NoParts(parts) THEN Reject("ValidationError")
       ELSE Accept(parts)

\* generateImageBatchStreamOpenAI up to the creation of the task queue.
OpenAIPreflight(p, messages, uploaded) ==
    LET text == IF p # "" THEN <<TextPart(Text(<<>>, p))>> ELSE <<>>
        selectedImages == ImageParts(CollectSelectedImages(messages))
        userContent == text \o selectedImages
                            \o ImageParts(UploadedImageInputs(uploaded))
    IN IF NoParts(userContent) THEN Reject("ImageProcessingError")
       ELSE Accept(userContent)

Settings(model, aspectRatio, resolution) ==
    [model |-> model, aspectRatio |-> aspectRatio, resolution |-> resolution]

\* No model named (the default one is used), no aspect ratio asked for.
DefaultSettings == Settings("", "Auto", "1K")

AllSettings ==
    {Settings(m, a, r) : m \in {"", "custom"}, a \in {"Auto", "1:1"},
                         r \in {"1K", "4K"}}

\* imageConfig (Gemini) and extraBody (OpenAI): the aspect ratio unless it is
\* Auto, the resolution.
ImageOptions(v, set) ==
    [aspectRatio |-> IF set.aspectRatio # "" /\ set.aspectRatio # "Auto"
                     THEN set.aspectRatio ELSE "unset",
     size |-> IF v = "openai"
              THEN (IF set.resolution # "" THEN set.resolution ELSE "unset")
              ELSE (IF set.resolution \in {"1K", "2K", "4K"}
                    THEN set.resolution ELSE "unset")]

\* modelName (Gemini: MODEL_PRO unless a model is configured), model (OpenAI).
ModelName(v, set) ==
    IF v # "openai" /\ set.model = "" THEN "gemini-3-pro-image-preview"
    ELSE set.model

CallConfig(v, set) == [model |-> ModelName(v, set), options |-> ImageOptions(v, set)]

\* Before the invocation has built anything.
NoConfig == [model |-> "", options |-> [aspectRatio |-> "unset", size |-> "unset"]]

\* The arguments are taken to pass validateApiKey and validatePrompt, which
\* come first in both functions.
Preflight(v, p, messages, uploaded) ==
    IF v = "openai" THEN OpenAIPreflight(p, messages, uploaded)
    ELSE GeminiPreflight(p, messages, uploaded)

\* ------------------------------------------------------------ the worker

Emit(st, i, ev) == [st EXCEPT !.slotLog[i] = Append(@, ev)]

RECURSIVE EmitAll(_, _, _)
EmitAll(st, i, evs) ==
    IF evs = <<>> THEN st ELSE EmitAll(Emit(st, i, Head(evs)), i, Tail(evs))

\* return: the worker's promise settles and its locals are gone.
Return(st, w) ==
    [st EXCEPT !.workers[w] = [pc |-> "done", index |-> 0, attempt |-> 0]]

\* What a provider call carries: the parts, the model name and the image
\* options the invocation built.
Payload(parts, config) ==
    [parts |-> parts, model |-> config.model, options |-> config.options]

\* Mutant of CallPayload: a retry is sent without the image options.
CallPayloadBareRetry(payload, attempt) ==
    IF attempt > 1
    THEN [payload EXCEPT !.options = [aspectRatio |-> "unset", size |-> "unset"]]
    ELSE payload

\* The arguments of generateContent / fetchGeminiGenerateContent /
\* chat.completions.create at the given attempt: formattedHistory is empty,
\* the rest is what was built before the workers.
CallPayload(payload, attempt) == payload

\* Mutant of StartAttempt: the retry loop does not check the signal.
StartAttemptUnchecked(st, w, ab) ==
    Emit([st EXCEPT !.workers[w].pc = "call",
                    !.sent = @ \cup {CallPayload(st.payload,
                                                 st.workers[w].attempt + 1)}],
         st.workers[w].index, Ev("call", st.workers[w].attempt + 1))

\* Top of the retry loop body: the abort check, then the provider call.
StartAttempt(st, w, ab) ==
    IF ab THEN Return(st, w)
    ELSE Emit([st EXCEPT !.workers[w].pc = "call",
                         !.sent = @ \cup {CallPayload(st.payload,
                                                      st.workers[w].attempt + 1)}],
              st.workers[w].index, Ev("call", st.workers[w].attempt + 1))

\* Mutant of ClaimNext: reads taskQueue[0] and leaves it in the queue.
ClaimNextPeek(st, w, ab) ==
    IF Len(st.taskQueue) = 0 THEN Return(st, w)
    ELSE IF ab THEN Return(st, w)
    ELSE LET index == Head(st.taskQueue)
             s1 == [st EXCEPT !.workers[w] = [pc |-> "run", index |-> index,
                                              attempt |-> 0]]
         IN StartAttempt(Emit(s1, index, Ev("claim", 1)), w, ab)

\* Mutant of ClaimNext: the queue loop does not check the signal.
ClaimNextUnchecked(st, w, ab) ==
    IF Len(st.taskQueue) = 0 THEN Return(st, w)
    ELSE LET index == Head(st.taskQueue)
             s1 == [st EXCEPT !.taskQueue = Tail(@),
                              !.workers[w] = [pc |-> "run", index |-> index,
                                              attempt |-> 0]]
         IN StartAttempt(Emit(s1, index, Ev("claim", 1)), w, ab)

\* Mutant of ClaimNext: takes the last slot of the queue (pop in place of
\* shift).
ClaimNextFromEnd(st, w, ab) ==
    IF Len(st.taskQueue) = 0 THEN Return(st, w)
    ELSE IF ab THEN Return(st, w)
    ELSE LET index == st.taskQueue[Len(st.taskQueue)]
             s1 == [st EXCEPT !.taskQueue = SubSeq(@, 1, Len(@) - 1),
                              !.workers[w] = [pc |-> "run", index |-> index,
                                              attempt |-> 0]]
         IN StartAttempt(Emit(s1, index, Ev("claim", 1)), w, ab)

\* Top of the queue loop: the abort check and taskQueue.shift().
ClaimNext(st, w, ab) ==
    IF Len(st.taskQueue) = 0 THEN Return(st, w)
    ELSE IF ab THEN Return(st, w)
    ELSE LET index == Head(st.taskQueue)
             s1 == [st EXCEPT !.taskQueue = Tail(@),
                              !.workers[w] = [pc |-> "run", index |-> index,
                                              attempt |-> 0]]
         IN StartAttempt(Emit(s1, index, Ev("claim", 1)), w, ab)

\* Mutant of FinishSlot: reports the slot's number instead of the shared counter.
FinishSlotIndexProgress(st, w, success, ab) ==
    LET i  == st.workers[w].index
        s1 == IF ~success /\ ~ab THEN Emit(st, i, Ev("error", 0)) ELSE st
        s2 == IF ~ab
              THEN [Emit(s1, i, Ev("progress", 1))
                       EXCEPT !.completedCount = @ + 1,
                              !.progressLog = Append(@, <<i + 1, st.total>>)]
              ELSE s1
    IN ClaimNext(s2, w, ab)

\* Mutant of FinishSlot: the error image is reported whether or not the slot
\* succeeded.
FinishSlotAlwaysError(st, w, success, ab) ==
    LET i  == st.workers[w].index
        s1 == IF ~ab THEN Emit(st, i, Ev("error", 0)) ELSE st
        s2 == IF ~ab
              THEN [Emit(s1, i, Ev("progress", 1))
                       EXCEPT !.completedCount = @ + 1,
                              !.progressLog =
                                  Append(@, <<s1.completedCount + 1, st.total>>)]
              ELSE s1
    IN ClaimNext(s2, w, ab)

\* Mutant of FinishSlot: the error image is reported without looking at the
\* signal.
FinishSlotErrorUnguarded(st, w, success, ab) ==
    LET i  == st.workers[w].index
        s1 == IF ~success THEN Emit(st, i, Ev("error", 0)) ELSE st
        s2 == IF ~ab
              THEN [Emit(s1, i, Ev("progress", 1))
                       EXCEPT !.completedCount = @ + 1,
                              !.progressLog =
                                  Append(@, <<s1.completedCount + 1, st.total>>)]
              ELSE s1
    IN ClaimNext(s2, w, ab)

\* Mutant of FinishSlot: the progress update is made without looking at the
\* signal.
FinishSlotProgressUnguarded(st, w, success, ab) ==
    LET i  == st.workers[w].index
        s1 == IF ~success /\ ~ab THEN Emit(st, i, Ev("error", 0)) ELSE st
        s2 == [Emit(s1, i, Ev("progress", 1))
                  EXCEPT !.completedCount = @ + 1,
                         !.progressLog =
                             Append(@, <<s1.completedCount + 1, st.total>>)]
    IN ClaimNext(s2, w, ab)

\* After the retry loop: the error image, the progress update, the next slot.
FinishSlot(st, w, success, ab) ==
    LET i  == st.workers[w].index
        s1 == IF ~success /\ ~ab THEN Emit(st, i, Ev("error", 0)) ELSE st
        s2 == IF ~ab
              THEN [Emit(s1, i, Ev("progress", 1))
                       EXCEPT !.completedCount = @ + 1,
                              !.progressLog =
                                  Append(@, <<s1.completedCount + 1, st.total>>)]
              ELSE s1
    IN ClaimNext(s2, w, ab)

\* Mutant of RetryLoop: the loop goes on after a successful attempt.
RetryLoopIgnoresSuccess(st, w, success, ab) ==
    IF st.workers[w].attempt <= MAX_RETRIES
    THEN StartAttempt(st, w, ab)
    ELSE FinishSlot(st, w, success, ab)

\* Mutant of RetryLoop: one attempt too many.
RetryLoopOffByOne(st, w, success, ab) ==
    IF st.workers[w].attempt <= MAX_RETRIES + 1 /\ ~success
    THEN StartAttempt(st, w, ab)
    ELSE FinishSlot(st, w, success, ab)

\* while (attempt <= MAX_RETRIES && !success)
RetryLoop(st, w, success, ab) ==
    IF st.workers[w].attempt <= MAX_RETRIES /\ ~success
    THEN StartAttempt(st, w, ab)
    ELSE FinishSlot(st, w, success, ab)

\* Mutant of WaitTime: linear backoff.
WaitTimeLinear(attempt) == 1000 * attempt

WaitTime(attempt) == 1000 * Pow2(attempt - 1)

\* Mutant of Catch: every failed attempt reports an error image.
CatchReportsEachFailure(st, w, ab) ==
    LET s0 == Emit(st, st.workers[w].index, Ev("error", 0))
        s1 == [s0 EXCEPT !.workers[w].attempt = @ + 1]
        a  == s1.workers[w].attempt
    IN IF a <= MAX_RETRIES /\ ~ab
       THEN Emit([s1 EXCEPT !.workers[w].pc = "wait"],
                 s1.workers[w].index, Ev("wait", WaitTime(a)))
       ELSE RetryLoop(s1, w, FALSE, ab)

\* Mutant of Catch: the last failure is thrown out of the worker, which stops.
CatchRethrowsLast(st, w, ab) ==
    LET s1 == [st EXCEPT !.workers[w].attempt = @ + 1]
        a  == s1.workers[w].attempt
    IN IF a <= MAX_RETRIES /\ ~ab
       THEN Emit([s1 EXCEPT !.workers[w].pc = "wait"],
                 s1.workers[w].index, Ev("wait", WaitTime(a)))
       ELSE Return(s1, w)

\* The catch block.
Catch(st, w, ab) ==
    LET s1 == [st EXCEPT !.workers[w].attempt = @ + 1]
        a  == s1.workers[w].attempt
    IN IF a <= MAX_RETRIES /\ ~ab
       THEN Emit([s1 EXCEPT !.workers[w].pc = "wait"],
                 s1.workers[w].index, Ev("wait", WaitTime(a)))
       ELSE RetryLoop(s1, w, FALSE, ab)

\* Mutant of OnResponse: a safety block ends the slot without a retry.
OnResponseSafetyFatal(st, w, resp, v, ab) ==
    LET h  == Handle(v, resp)
        s1 == EmitAll(st, st.workers[w].index, h.events)
    IN IF resp.kind \in {"safety", "content_filter"}
       THEN FinishSlot(s1, w, FALSE, ab)
       ELSE IF h.threw THEN Catch(s1, w, ab) ELSE RetryLoop(s1, w, TRUE, ab)

\* Mutant of OnResponse: the loop over the parts stops at the first image.
OnResponseFirstImageOnly(st, w, resp, v, ab) ==
    LET h  == Handle(v, resp)
        firstImage == CHOOSE j \in 1..(Len(h.events) + 1) :
                         /\ j <= Len(h.events) => h.events[j].e = "image"
                         /\ \A x \in 1..(j - 1) : h.events[x].e # "image"
        s1 == EmitAll(st, st.workers[w].index,
                      SubSeq(h.events, 1, Min(firstImage, Len(h.events))))
    IN IF h.threw THEN Catch(s1, w, ab) ELSE RetryLoop(s1, w, TRUE, ab)

\* Continuation of worker w when its provider call settles with resp.
OnResponse(st, w, resp, v, ab) ==
    LET h  == Handle(v, resp)
        s1 == EmitAll(st, st.workers[w].index, h.events)
    IN IF h.threw THEN Catch(s1, w, ab) ELSE RetryLoop(s1, w, TRUE, ab)

\* Mutant of AfterDelay: the promise of delay() is never resolved, the worker
\* stays in its wait.
AfterDelayNever(st, w, ab) == st

\* Continuation of worker w when its delay() resolves.
AfterDelay(st, w, ab) == RetryLoop(st, w, FALSE, ab)

\* Mutant of NumWorkers: one worker per slot.
NumWorkersUncapped(k) == k

NumWorkers(k) == Min(MAX_CONCURRENT_REQUESTS, k)

\* Mutant of Spawn: a worker does not look at the signal before its first
\* claim.
RECURSIVE SpawnUnchecked(_, _, _, _)
SpawnUnchecked(st, w, n, ab) ==
    IF w > n THEN st ELSE SpawnUnchecked(ClaimNext(st, w, FALSE), w + 1, n, ab)

\* Array.from({length: numWorkers}, (_, i) => worker(i + 1)): each worker runs
\* synchronously up to its first await, in order.
RECURSIVE Spawn(_, _, _, _)
Spawn(st, w, n, ab) ==
    IF w > n THEN st ELSE Spawn(ClaimNext(st, w, ab), w + 1, n, ab)

\* ------------------------------------------------------------ state machine

Batch == [taskQueue |-> taskQueue, completedCount |-> completedCount,
          workers |-> workers, slotLog |-> slotLog,
          progressLog |-> progressLog, total |-> batchSize,
          payload |-> Payload(userParts, callConfig), sent |-> sent]

Store(st) ==
    /\ sent' = st.sent
    /\ taskQueue' = st.taskQueue
    /\ completedCount' = st.completedCount
    /\ workers' = st.workers
    /\ slotLog' = st.slotLog
    /\ progressLog' = st.progressLog

Slots == 0..(batchSize - 1)

\* The batches explored: <<batch size, provider stub>>.
SmallScenarios ==
    {<<k, "plain">> : k \in 1..MaxBatch}
        \cup {<<k, "rich">> : k \in 1..MaxRichBatch}

PoolScenarios ==
    {<<BigBatch, "reliable">>}
        \cup {<<k, "rich">> : k \in 1..MaxRichBatch}
        \cup {<<k, "plain">> : k \in 1..MaxPoolBatch}

\* Mutant of FreshState: completedCount is a variable of the module, which an
\* invocation finds as the invocations before it left it.
FreshStateModuleCounter(k) ==
    [taskQueue |-> [j \in 1..k |-> j - 1],
     completedCount |-> completedCount + other.completedCount,
     workers |-> [w \in 1..NumWorkers(k) |->
                     [pc |-> "new", index |-> 0, attempt |-> 0]],
     slotLog |-> [i \in 0..(k - 1) |-> <<>>],
     progressLog |-> <<>>,
     total |-> k,
     payload |-> Payload(<<>>, NoConfig),
     sent |-> {}]

\* const taskQueue, let completedCount and the worker promises of an
\* invocation for k slots, before the workers run.
FreshState(k) ==
    [taskQueue |-> [j \in 1..k |-> j - 1],
     completedCount |-> 0,
     workers |-> [w \in 1..NumWorkers(k) |->
                     [pc |-> "new", index |-> 0, attempt |-> 0]],
     slotLog |-> [i \in 0..(k - 1) |-> <<>>],
     progressLog |-> <<>>,
     total |-> k,
     payload |-> Payload(<<>>, NoConfig),
     sent |-> {}]

\* An invocation that has not been made: variant v, provider stub prov, k slots.
NotCalled(v, prov, k) ==
    [variant |-> v, provider |-> prov, batchSize |-> k, opState |-> "idle",
     aborted |-> FALSE, taskQueue |-> <<>>, completedCount |-> 0,
     workers |-> <<>>, slotLog |-> <<>>, progressLog |-> <<>>]

\* No helper function under study, no second invocation.
NoEndpoint ==
    /\ endpointArgs = [baseUrl |-> <<>>, modelName |-> <<>>]
    /\ endpoint = <<>>

NoneApart ==
    /\ dataUri = <<>>
    /\ imageData = <<>>
    /\ NoEndpoint
    /\ NoHook
    /\ other = NotCalled("sdk", "reliable", 1)

\* No call of the batch function made yet.
Idle(scenarios, requests, settingsSet) ==
    /\ variant \in Variants
    /\ settings \in settingsSet
    /\ callConfig = NoConfig
    /\ sent = {}
    /\ \E sc \in scenarios : batchSize = sc[1] /\ provider = sc[2]
    /\ \E r \in requests :
          /\ prompt = r.prompt
          /\ history = r.history
          /\ uploadedImages = r.uploadedImages
    /\ opState = "idle"
    /\ userParts = <<>>
    /\ aborted = FALSE
    /\ taskQueue = <<>>
    /\ completedCount = 0
    /\ workers = <<>>
    /\ slotLog = <<>>
    /\ progressLog = <<>>

\* No call made yet, the settings being the default ones.
BatchIdle(scenarios, requests) == Idle(scenarios, requests, {DefaultSettings})

InitWith(scenarios, requests) == BatchIdle(scenarios, requests) /\ NoneApart

Init == InitWith(SmallScenarios, TextRequests)

InitPool == InitWith(PoolScenarios, TextRequests)

\* generateImageBatchStream / generateImageBatchStreamOpenAI, up to the await
\* of Promise.all.
StartBatch ==
    /\ opState = "idle"
    /\ LET pre == Preflight(variant, prompt, history, uploadedImages)
           n   == NumWorkers(batchSize)
           cfg == CallConfig(variant, settings)
           s0  == [FreshState(batchSize)
                      EXCEPT !.payload = Payload(pre.parts, cfg)]
       IN IF pre.ok
          THEN /\ userParts' = pre.parts
               /\ callConfig' = cfg
               /\ Store(Spawn(s0, 1, n, aborted))
               /\ opState' = "running"
          ELSE /\ opState' = "rejected"
               /\ UNCHANGED <<message, sent, taskQueue, completedCount, workers,
                              slotLog, progressLog>>
    /\ UNCHANGED <<args, aborted, apart>>

\* The provider call of worker w settles.
CallSettles(w) ==
    /\ workers[w].pc = "call"
    /\ \E resp \in Deliverable(variant, provider, aborted) :
          Store(OnResponse(Batch, w, resp, variant, aborted))
    /\ UNCHANGED <<args, opState, message, aborted, apart>>

\* The backoff timer of worker w fires.
DelayElapses(w) ==
    /\ workers[w].pc = "wait"
    /\ Store(AfterDelay(Batch, w, aborted))
    /\ UNCHANGED <<args, opState, message, aborted, apart>>

\* Mutant of Abort: the signal wakes the workers that sit in a backoff wait,
\* which return at once.
AbortCancelsWait ==
    /\ opState \in {"idle", "running"}
    /\ ~aborted
    /\ aborted' = TRUE
    /\ workers' = [w \in DOMAIN workers |->
                       IF workers[w].pc = "wait"
                       THEN [pc |-> "done", index |-> 0, attempt |-> 0]
                       ELSE workers[w]]
    /\ UNCHANGED <<args, opState, message, sent, taskQueue, completedCount,
                   slotLog, progressLog, apart>>

\* The caller aborts the AbortController, from a task of its own (between two
\* steps of the workers).
Abort ==
    /\ opState \in {"idle", "running"}
    /\ ~aborted
    /\ aborted' = TRUE
    /\ UNCHANGED <<args, opState, message, sent, taskQueue, completedCount,
                   workers, slotLog, progressLog, apart>>

\* Mutant of Resolve: the batch resolves with the first worker that returns
\* (Promise.race in place of Promise.all).
ResolveRace ==
    /\ opState = "running"
    /\ \E w \in DOMAIN workers : workers[w].pc = "done"
    /\ opState' = "resolved"
    /\ UNCHANGED <<args, message, sent, aborted, taskQueue, completedCount,
                   workers, slotLog, progressLog, apart>>

\* await Promise.all(workers) completes.
Resolve ==
    /\ opState = "running"
    /\ \A w \in DOMAIN workers : workers[w].pc = "done"
    /\ opState' = "resolved"
    /\ UNCHANGED <<args, message, sent, aborted, taskQueue, completedCount,
                   workers, slotLog, progressLog, apart>>

Next ==
    \/ StartBatch
    \/ \E w \in DOMAIN workers : CallSettles(w)
    \/ \E w \in DOMAIN workers : DelayElapses(w)
    \/ Abort
    \/ Resolve

\* Batches no larger than the concurrency cap.
Spec == Init /\ [][Next]_vars

\* A batch larger than the concurrency cap against a provider that always
\* answers with one image, and small batches against the other providers.
SpecPool == InitPool /\ [][Next]_vars

\* The batches explored for progress: <<batch size, provider stub>>.
LiveScenarios ==
    {<<k, "plain">> : k \in 1..MaxLiveBatch}
        \cup {<<k, "rich">> : k \in 1..MaxRichBatch}

InitLive == InitWith(LiveScenarios, TextRequests)

\* Every provider call settles (with a response or an error), every backoff
\* timer fires, and the event loop runs the continuation of Promise.all: a
\* pending call is a pending promise of the client, a pending wait is a
\* setTimeout, and neither can be taken back, so weak fairness is enough.
\* The caller is free to start the batch and to abort it or not.
Fairness ==
    /\ WF_vars(\E w \in DOMAIN workers : CallSettles(w))
    /\ WF_vars(\E w \in DOMAIN workers : DelayElapses(w))
    /\ WF_vars(Resolve)

\* Requests of every shape, each as a batch of one slot against a provider
\* that answers with one image, and the text request, under every setting,
\* against one that may fail.
InitRequest ==
    \/ InitWith({<<1, "reliable">>}, Requests)
    \/ InitWith({<<1, "plain">>}, TextRequests)
    \/ Idle({<<1, "plain">>}, TextRequests, AllSettings) /\ NoneApart

SpecRequest == InitRequest /\ [][Next]_vars

SpecLive == InitLive /\ [][Next]_vars /\ Fairness

\* A string is handed to extractBase64Data.
InitDataUri ==
    /\ BatchIdle({<<1, "reliable">>}, TextRequests)
    /\ dataUri \in DataUris
    /\ imageData = <<>>
    /\ NoEndpoint
    /\ NoHook
    /\ other = NotCalled("sdk", "reliable", 1)

\* The call of extractBase64Data returns.
Extract ==
    /\ imageData = <<>>
    /\ imageData' = <<extractBase64Data(dataUri)>>
    /\ UNCHANGED <<own, dataUri, endpointArgs, endpoint, hook, other>>

NextDataUri == Extract

SpecDataUri == InitDataUri /\ [][NextDataUri]_vars

\* A base URL and a model name are handed to buildGeminiEndpoint.
InitEndpoint ==
    /\ BatchIdle({<<1, "reliable">>}, TextRequests)
    /\ dataUri = <<>>
    /\ imageData = <<>>
    /\ \E b \in BaseUrls, m \in ModelNames :
          endpointArgs = [baseUrl |-> b, modelName |-> m]
    /\ endpoint = <<>>
    /\ NoHook
    /\ other = NotCalled("sdk", "reliable", 1)

\* The call of buildGeminiEndpoint returns.
BuildEndpoint ==
    /\ endpoint = <<>>
    /\ endpoint' = <<buildGeminiEndpoint(endpointArgs.baseUrl,
                                         endpointArgs.modelName)>>
    /\ UNCHANGED <<own, dataUri, imageData, endpointArgs, hook, other>>

NextEndpoint == BuildEndpoint

SpecEndpoint == InitEndpoint /\ [][NextEndpoint]_vars

\* ---- the provider settings

\* The hook is mounted over some storage.
InitHook ==
    /\ BatchIdle({<<1, "reliable">>}, TextRequests)
    /\ dataUri = <<>>
    /\ imageData = <<>>
    /\ NoEndpoint
    /\ localStorage \in Storages
    /\ providerConfig = Initializer(localStorage)
    /\ lastUpdate = NoCall
    /\ other = NotCalled("sdk", "reliable", 1)

\* The state update of a call has run: what the call leaves is in place.
Called(op, validation, outcome) ==
    /\ providerConfig' = outcome.config
    /\ localStorage' = outcome.store
    /\ lastUpdate' = [op |-> op, threw |-> outcome.threw, validation |-> validation]

UpdateProvider ==
    /\ \E selected \in Providers :
          Called("updateProvider", "ok",
                 updateProvider(providerConfig, localStorage, selected))
    /\ UNCHANGED <<own, dataUri, imageData, endpointArgs, endpoint, other>>

UpdateApiKey ==
    /\ \E key \in ApiKeys, validation \in Validations :
          Called(IF key = "" THEN "updateApiKey-empty" ELSE "updateApiKey",
                 IF key = "" THEN "ok" ELSE validation,
                 updateApiKey(providerConfig, localStorage, key, validation))
    /\ UNCHANGED <<own, dataUri, imageData, endpointArgs, endpoint, other>>

UpdateBaseUrl ==
    /\ \E url \in Urls :
          Called("updateBaseUrl", "ok",
                 updateBaseUrl(providerConfig, localStorage, url))
    /\ UNCHANGED <<own, dataUri, imageData, endpointArgs, endpoint, other>>

UpdateModel ==
    /\ \E model \in ModelIds :
          Called("updateModel", "ok",
                 updateModel(providerConfig, localStorage, model))
    /\ UNCHANGED <<own, dataUri, imageData, endpointArgs, endpoint, other>>

NextHook ==
    \/ UpdateProvider
    \/ UpdateApiKey
    \/ UpdateBaseUrl
    \/ UpdateModel

SpecHook == InitHook /\ [][NextHook]_vars

\* ---- two invocations at once

\* The locals of the second invocation.
OtherBatch ==
    [taskQueue |-> other.taskQueue, completedCount |-> other.completedCount,
     workers |-> other.workers, slotLog |-> other.slotLog,
     progressLog |-> other.progressLog, total |-> other.batchSize,
     payload |-> Payload(<<TextPart(Text(<<>>, "draw"))>>,
                         CallConfig(other.variant, DefaultSettings)),
     sent |-> {}]

StoreOther(st) ==
    other' = [other EXCEPT !.taskQueue = st.taskQueue,
                           !.completedCount = st.completedCount,
                           !.workers = st.workers,
                           !.slotLog = st.slotLog,
                           !.progressLog = st.progressLog,
                           !.opState = "running"]

\* The second invocation is made, with a prompt and no image.
StartOther ==
    /\ other.opState = "idle"
    /\ StoreOther(Spawn([FreshState(other.batchSize)
                             EXCEPT !.payload = OtherBatch.payload], 1,
                        NumWorkers(other.batchSize), other.aborted))
    /\ UNCHANGED <<own, dataUri, imageData, endpointArgs, endpoint, hook>>

OtherCallSettles(w) ==
    /\ other.workers[w].pc = "call"
    /\ \E resp \in Deliverable(other.variant, other.provider, other.aborted) :
          StoreOther(OnResponse(OtherBatch, w, resp, other.variant,
                                other.aborted))
    /\ UNCHANGED <<own, dataUri, imageData, endpointArgs, endpoint, hook>>

OtherDelayElapses(w) ==
    /\ other.workers[w].pc = "wait"
    /\ StoreOther(AfterDelay(OtherBatch, w, other.aborted))
    /\ UNCHANGED <<own, dataUri, imageData, endpointArgs, endpoint, hook>>

\* The caller aborts the controller of the second invocation.
AbortOther ==
    /\ other.opState \in {"idle", "running"}
    /\ ~other.aborted
    /\ other' = [other EXCEPT !.aborted = TRUE]
    /\ UNCHANGED <<own, dataUri, imageData, endpointArgs, endpoint, hook>>

ResolveOther ==
    /\ other.opState = "running"
    /\ \A w \in DOMAIN other.workers : other.workers[w].pc = "done"
    /\ other' = [other EXCEPT !.opState = "resolved"]
    /\ UNCHANGED <<own, dataUri, imageData, endpointArgs, endpoint, hook>>

\* Two invocations, each of a few slots against a provider that may fail.
InitTwo ==
    /\ BatchIdle({<<k, "plain">> : k \in 1..MaxTwoBatch}, TextRequests)
    /\ dataUri = <<>>
    /\ imageData = <<>>
    /\ NoEndpoint
    /\ NoHook
    /\ \E v \in Variants : other = NotCalled(v, "plain", 1)

NextTwo ==
    \/ Next
    \/ StartOther
    \/ \E w \in DOMAIN other.workers : OtherCallSettles(w)
    \/ \E w \in DOMAIN other.workers : OtherDelayElapses(w)
    \/ AbortOther
    \/ ResolveOther

SpecTwo == InitTwo /\ [][NextTwo]_vars

\* ------------------------------------------------------------ observations

Started == opState # "idle"

Running == opState = "running"

Finished == opState = "resolved"

\* The events e of slot i, in order.
Of(i, e) == SelectSeq(slotLog[i], LAMBDA x : x.e = e)

N(i, e) == Len(Of(i, e))

RECURSIVE OccFrom(_, _, _)
OccFrom(log, e, i) ==
    IF i \notin DOMAIN log THEN 0
    ELSE Len(SelectSeq(log[i], LAMBDA x : x.e = e)) + OccFrom(log, e, i + 1)

\* Number of events e over all slots.
Occ(log, e) == OccFrom(log, e, 0)

Last(log) == log[Len(log)]

\* The workers with a provider call in flight.
InFlight == {w \in DOMAIN workers : workers[w].pc = "call"}

\* The events a step adds to the log of slot i.
Added(i) ==
    IF i \in DOMAIN slotLog
    THEN SubSeq(slotLog'[i], Len(slotLog[i]) + 1, Len(slotLog'[i]))
    ELSE slotLog'[i]

\* ------------------------------------------------------------ claims

\* C1: the onProgress calls of a batch are onProgress(1, k), onProgress(2, k),
\* ... in this order, and a batch that resolves without cancellation has made
\* exactly k of them, the last one onProgress(k, k).
C1_ProgressCounts ==
    /\ \A j \in 1..Len(progressLog) : progressLog[j] = <<j, batchSize>>
    /\ (Finished /\ ~aborted) =>
          /\ Len(progressLog) = batchSize
          /\ Last(progressLog) = <<batchSize, batchSize>>

C1_Witness ==
    /\ Finished /\ ~aborted
    /\ batchSize = BigBatch
    /\ Len(progressLog) = BigBatch

C3_NoDoubleClaim ==
    Started =>
        LET holders == {w \in DOMAIN workers : workers[w].pc \in {"call", "wait"}}
            held    == {workers[w].index : w \in holders}
            queued  == {taskQueue[j] : j \in 1..Len(taskQueue)}
        IN /\ \A i \in DOMAIN slotLog : N(i, "claim") <= 1
           /\ Cardinality(held) = Cardinality(holders)
           /\ Cardinality(queued) = Len(taskQueue)
           /\ \A i \in queued : N(i, "claim") = 0
           /\ \A i \in held : N(i, "claim") = 1

C3_Witness ==
    /\ batchSize = BigBatch
    /\ \E w \in DOMAIN workers :
          workers[w].pc = "call" /\ workers[w].index = BigBatch - 1
    /\ \E w \in DOMAIN workers :
          workers[w].pc = "call" /\ workers[w].index # BigBatch - 1

\* C4: a started batch has exactly min(10, batchSize) workers, and at most
\* that many provider calls are in flight.
C4_WorkerCap ==
    Started =>
        /\ Len(workers) = Min(10, batchSize)
        /\ Cardinality(InFlight) <= Min(10, batchSize)

C4_Witness ==
    /\ batchSize = BigBatch
    /\ Cardinality(InFlight) = 10
    /\ taskQueue = <<>>

\* C5: no slot is attempted more than 4 times, cancelled or not, and a batch
\* makes at most 4 x batchSize provider calls.
C5_AttemptLimit ==
    /\ \A i \in DOMAIN slotLog : N(i, "call") <= 4
    /\ Occ(slotLog, "call") <= 4 * batchSize

C5_Witness ==
    \E i \in DOMAIN slotLog : N(i, "call") = 4 /\ Last(slotLog[i]).e = "call"

\* C6: a slot with an error onImage was attempted exactly 4 times, has exactly
\* one error onImage (empty data) directly followed by exactly one onProgress
\* as its last events, and no success onImage; in a batch that resolves
\* without cancellation every slot without a success onImage ended this way.
C6_Exhaustion ==
    \A i \in DOMAIN slotLog :
        LET log    == slotLog[i]
            errors == N(i, "error")
        IN
        /\ errors >= 1 =>
              /\ N(i, "call") = 4
              /\ errors = 1
              /\ N(i, "progress") = 1
              /\ N(i, "image") = 0
              /\ SubSeq(log, Len(log) - 1, Len(log))
                    = <<Ev("error", 0), Ev("progress", 1)>>
        /\ (Finished /\ ~aborted /\ N(i, "image") = 0) => errors = 1

C6_Witness ==
    /\ Finished /\ ~aborted
    /\ \E i, j \in DOMAIN slotLog :
          /\ N(i, "error") = 1 /\ N(i, "call") = 4
          /\ N(j, "image") = 1

Backoff == <<1000, 2000, 4000>>

\* C7: the waits of a slot are 1000, 2000, 4000 in this order, at most three;
\* attempt n >= 2 starts directly after the wait of 1000 x 2^(n-2) ms; in a
\* batch that resolves without cancellation a slot that made n attempts has
\* waited n - 1 times (no wait after the last attempt, failed or not).
C7_Backoff ==
    \A i \in DOMAIN slotLog :
        LET log   == slotLog[i]
            waits == Of(i, "wait")
            calls == Of(i, "call")
        IN
        /\ Len(waits) <= 3
        /\ \A j \in 1..Len(waits) : waits[j].n = Backoff[j]
        /\ \A j \in 1..Len(calls) : calls[j].n = j
        /\ \A j \in 1..Len(log) :
              (log[j].e = "call" /\ log[j].n >= 2) =>
                  j > 1 /\ log[j - 1] = Ev("wait", Backoff[log[j].n - 1])
        /\ \A j \in 1..Len(log) :
              log[j].e = "wait" => (j = Len(log) \/ log[j + 1].e = "call")
        /\ (Finished /\ ~aborted) => Len(waits) = Len(calls) - 1

C7_Witness ==
    /\ Finished /\ ~aborted
    /\ \E i \in DOMAIN slotLog :
          slotLog[i] = <<Ev("claim", 1), Ev("call", 1), Ev("wait", 1000),
                         Ev("call", 2), Ev("wait", 2000), Ev("call", 3),
                         Ev("image", 1), Ev("progress", 1)>>

\* The responses that are failures without content, by kind: an HTTP or
\* network error, no candidate / choice, a safety block, no usable content.
FailureKinds(v) ==
    IF v = "openai" THEN {"throw", "nochoice", "content_filter", "nocontent"}
    ELSE {"throw", "nocandidate", "safety", "noparts"}

\* C8: while the batch is not cancelled, whatever the kind of failure a
\* provider call settles with, its worker does the same: after failed attempt
\* n <= 3 it waits 1000 x 2^(n-1) ms for a retry and emits nothing, and only
\* after failed attempt 4 does it end the slot with the error image.
C8_RetryAnyFailure ==
    \A w \in DOMAIN workers :
        (workers[w].pc = "call" /\ ~aborted) =>
            \A k \in FailureKinds(variant) :
                LET s == OnResponse(Batch, w, Resp(k, <<>>), variant, aborted)
                    i == workers[w].index
                    a == workers[w].attempt + 1
                IN IF a <= 3
                   THEN /\ s.workers[w] =
                              [pc |-> "wait", index |-> i, attempt |-> a]
                        /\ s.slotLog[i] =
                              Append(slotLog[i], Ev("wait", Backoff[a]))
                   ELSE /\ a = 4
                        /\ s.slotLog[i] = slotLog[i] \o
                              <<Ev("error", 0), Ev("progress", 1)>>

C8_Witness ==
    /\ ~aborted
    /\ \E w \in DOMAIN workers : workers[w].pc = "call" /\ workers[w].attempt = 3

\* C9: once the signal is set, no provider call and no backoff wait is started.
C9_NoAttemptAfterCancel ==
    [][aborted =>
          \A i \in DOMAIN slotLog' :
              IF i \in DOMAIN slotLog
              THEN \A j \in (Len(slotLog[i]) + 1)..Len(slotLog'[i]) :
                      slotLog'[i][j].e \notin {"call", "wait"}
              ELSE \A j \in 1..Len(slotLog'[i]) :
                      slotLog'[i][j].e \notin {"call", "wait"}]_vars

C9_Witness ==
    /\ aborted /\ Finished
    /\ batchSize = BigBatch
    /\ taskQueue = <<BigBatch - 1>>
    /\ Occ(slotLog, "call") = 10

\* C10: once the signal is set, no onProgress and no onImage call is made.
C10_SilentAfterCancel ==
    [][aborted =>
          /\ progressLog' = progressLog
          /\ \A i \in DOMAIN slotLog' :
                IF i \in DOMAIN slotLog
                THEN \A j \in (Len(slotLog[i]) + 1)..Len(slotLog'[i]) :
                        slotLog'[i][j].e \notin {"image", "error", "progress"}
                ELSE \A j \in 1..Len(slotLog'[i]) :
                        slotLog'[i][j].e \notin {"image", "error", "progress"}]_vars

\* C11: once the signal is set, no error-status onImage call is made for any
\* slot, whether its attempt was in flight, in a backoff wait or had just
\* failed for the fourth time when the signal was set.
C11_NoErrorAfterCancel ==
    [][aborted =>
          \A i \in DOMAIN slotLog' :
              \A j \in DOMAIN Added(i) : Added(i)[j].e # "error"]_vars

\* A cancelled batch in which a slot failed its fourth attempt after the signal
\* was set and was left without an error image.
C11_Witness ==
    /\ aborted /\ Finished
    /\ \E i \in DOMAIN slotLog :
          /\ N(i, "call") = MAX_RETRIES + 1
          /\ N(i, "image") = 0
          /\ N(i, "error") = 0

\* C12: once the signal is set, no worker claims a slot: the task queue keeps
\* the contents it had when the signal was set (all of the slots when the
\* batch is started with the signal already set) until the batch resolves.
C12_QueueFrozenAfterCancel ==
    [][aborted =>
          IF Started THEN taskQueue' = taskQueue
          ELSE Running' => taskQueue' = [j \in 1..batchSize |-> j - 1]]_vars

\* A big batch cancelled with one slot left in the queue: a worker has already
\* returned without claiming it while another still has its call in flight.
C12_Witness ==
    /\ aborted /\ opState = "running"
    /\ batchSize = BigBatch
    /\ taskQueue = <<BigBatch - 1>>
    /\ \E w \in DOMAIN workers : workers[w].pc = "done"
    /\ InFlight # {}

\* C13: a provider call in flight when the signal is set is aborted and
\* delivers no response to its worker, on the SDK, the proxy and the OpenAI
\* path alike: with the signal set, a call can settle only with the abort
\* rejection, and no part of a response (image or text) reaches the callbacks.
C13_InFlightCallAborted ==
    [][(aborted /\ InFlight # {}) =>
          /\ Deliverable(variant, provider, aborted) = {AbortError}
          /\ \A i \in DOMAIN slotLog' :
                \A j \in DOMAIN Added(i) :
                    Added(i)[j].e \notin {"image", "text"}]_vars

\* C14: the batch resolves only when every spawned worker has returned: at
\* resolution no worker has a call in flight or is in a backoff wait, and
\* after it no worker takes a step and no event is emitted.
C14_ResolveAfterWorkers ==
    [][/\ Finished' =>
             /\ Len(workers') = Min(MAX_CONCURRENT_REQUESTS, batchSize)
             /\ \A w \in DOMAIN workers' : workers'[w].pc = "done"
       /\ Finished =>
             /\ workers' = workers
             /\ slotLog' = slotLog
             /\ progressLog' = progressLog]_vars

\* A resolved batch of several slots whose workers made calls and sat in
\* backoff waits before they returned.
C14_Witness ==
    /\ Finished
    /\ batchSize > 1
    /\ \A i \in DOMAIN slotLog : N(i, "call") > 1 /\ N(i, "wait") > 0

\* C15: once its workers run, the batch does not reject (it stays pending
\* until it resolves), and a slot that fails does not stop the others: when a
\* batch that was not cancelled resolves, every slot 0..k-1 has been claimed
\* and has been resolved (an image or the error image, then its progress
\* update), whichever other slots ran out of retries.
C15_FailureIsolation ==
    [][/\ opState = "running" => opState' \in {"running", "resolved"}
       /\ (Finished' /\ ~aborted') =>
             /\ taskQueue' = <<>>
             /\ DOMAIN slotLog' = 0..(batchSize - 1)
             /\ \A i \in DOMAIN slotLog' :
                   LET ev(e) == Len(SelectSeq(slotLog'[i], LAMBDA x : x.e = e))
                   IN /\ ev("claim") = 1
                      /\ ev("progress") = 1
                      /\ ev("image") > 0 \/ ev("error") = 1]_vars

\* A resolved batch in which one slot ran out of retries while another one
\* went on to succeed at its last attempt.
C15_Witness ==
    /\ Finished /\ ~aborted
    /\ \E i, j \in DOMAIN slotLog :
          /\ N(i, "error") = 1
          /\ N(j, "image") = 1 /\ N(j, "call") = MAX_RETRIES + 1

\* C16: if every provider call and every backoff wait eventually returns and
\* the batch is not cancelled, a started batch eventually resolves, with the
\* task queue empty and the progress counter equal to batchSize.
C16_EventuallyResolves ==
    (Running /\ ~aborted) ~>
        \/ aborted
        \/ Finished /\ taskQueue = <<>> /\ completedCount = batchSize

\* A batch of several slots that was not cancelled, went through backoff
\* waits, and has resolved with the queue drained and the counter at k.
C16_Witness ==
    /\ Finished /\ ~aborted
    /\ batchSize > 1
    /\ taskQueue = <<>> /\ completedCount = batchSize
    /\ \E i \in DOMAIN slotLog : N(i, "wait") = MAX_RETRIES

\* C17: between the setting of the signal and the resolution of the batch, a
\* worker waits for nothing but the one provider call it had in flight when
\* the signal was set: every worker that has not returned is waiting for a
\* call (none sits in a backoff wait), and a step taken with the signal set
\* starts no call.
C17_WaitsOnlyForInFlightCall ==
    [][(aborted /\ opState = "running") =>
          /\ \A w \in DOMAIN workers : workers[w].pc \in {"call", "done"}
          /\ \A i \in DOMAIN slotLog' :
                \A j \in DOMAIN Added(i) : Added(i)[j].e # "call"]_vars

\* The prior messages whose selected image is sent, and the uploaded images
\* that are sent: those that decode and are not too large.
SentFromHistory ==
    {j \in DOMAIN history :
        /\ history[j].role = "model" /\ history[j].selected
        /\ history[j].status = "success" /\ history[j].img.data = "ok"}

SentFromUploads == {j \in DOMAIN uploadedImages : uploadedImages[j].data = "ok"}

\* The call has been made and nothing was set up for its workers.
FailedBeforeWorkers ==
    /\ opState = "rejected"
    /\ workers = <<>> /\ taskQueue = <<>> /\ completedCount = 0
    /\ slotLog = <<>> /\ progressLog = <<>>

\* C18: a request that is left, after filtering, with no text and no image
\* part fails before any worker is spawned: no slot is claimed, no provider
\* call is made, no onImage, onText or onProgress event is emitted.
C18_EmptyRequestFailsFast ==
    (Started /\ prompt = "" /\ SentFromHistory = {} /\ SentFromUploads = {})
        => FailedBeforeWorkers

\* A request without a prompt whose only image, the selected image of a prior
\* message, was filtered out as too large, has been rejected.
C18_Witness ==
    /\ FailedBeforeWorkers
    /\ prompt = "" /\ uploadedImages = <<>>
    /\ \E j \in DOMAIN history :
          /\ history[j].role = "model" /\ history[j].status = "success"
          /\ history[j].img.data = "big"

\* C19: on the Gemini and on the OpenAI path alike, an image that is dropped
\* as invalid or too large does not fail the batch while at least one
\* uploaded image survives, and a request whose uploaded images were all
\* dropped fails before any worker starts, with or without a prompt.
C19_AllUploadsDroppedFails ==
    /\ (Started /\ SentFromUploads # {}) => opState # "rejected"
    /\ (Started /\ uploadedImages # <<>> /\ SentFromUploads = {})
           => FailedBeforeWorkers

\* The ids of the image parts of the outbound message, in order.
SentIds ==
    LET images == SelectSeq(userParts, LAMBDA x : x.type = "image")
    IN [j \in 1..Len(images) |-> images[j].id]

\* C20: the outbound message has the text part first when there is a prompt
\* (and no text part otherwise), then the surviving selected images of the
\* prior messages in message order, then the surviving uploaded images in
\* upload order: the survivors keep their order whatever was dropped.
C20_PartOrder ==
    opState \in {"running", "resolved"} =>
        /\ IF prompt # "" THEN userParts[1].type = "text"
           ELSE \A j \in DOMAIN userParts : userParts[j].type = "image"
        /\ \A j \in 2..Len(userParts) : userParts[j].type = "image"
        /\ \A j \in 1..(Len(SentIds) - 1) : SentIds[j] < SentIds[j + 1]
        /\ {SentIds[j] : j \in DOMAIN SentIds} =
              {history[j].img.id : j \in SentFromHistory}
                  \cup {uploadedImages[j].id : j \in SentFromUploads}

\* A Gemini request with a prompt, two prior messages and two uploads, of
\* which the first prior image and the first upload were dropped: the message
\* sent is the text, the second prior image, the second upload.
C20_Witness ==
    /\ opState = "running" /\ variant = "sdk"
    /\ prompt # ""
    /\ Len(history) = 2 /\ SentFromHistory = {2}
    /\ Len(uploadedImages) = 2 /\ SentFromUploads = {2}
    /\ userParts = <<TextPart(Text(<<>>, prompt)), ImagePart(history[2].img),
                     ImagePart(uploadedImages[2])>>

\* C21: on every path, the text sent is the prompt with the image-order legend
\* for the images 1..n before it when more than one image part is sent and the
\* prompt refers to an image by its number, and the prompt as it is otherwise.
C21_LegendWhenOrdinal ==
    (Running /\ prompt # "") =>
        LET n == Len(SentIds)
        IN userParts[1].text =
              IF n > 1 /\ HasImageReference(prompt)
              THEN Text([i \in 1..n |-> i], prompt)
              ELSE Text(<<>>, prompt)

\* str holds sub as a substring.
Contains(str, sub) ==
    \E i \in 0..(Len(str) - Len(sub)) : SubSeq(str, i + 1, i + Len(sub)) = sub

\* C22: for every mime type and every non-empty base64 payload,
\* extractBase64Data applied to data:{mime};base64,{data} returns (mime, data);
\* applied to a string without the "base64," marker, or to a data URI with
\* nothing after the marker, it returns null.
C22_DataUriRoundTrip ==
    imageData # <<>> =>
        /\ \A m \in MimeTypes, d \in Payloads :
              dataUri = EncodeDataUri(m, d) =>
                  /\ ~imageData[1].null
                  /\ imageData[1].mimeType = m
                  /\ imageData[1].base64Data = d
        /\ ~Contains(dataUri, <<"b", "a", "s", "e", "6", "4", ",">>)
              => imageData[1].null
        /\ (\E m \in MimeTypes : dataUri = EncodeDataUri(m, <<>>))
              => imageData[1].null

\* A data URI with a mime type other than the default one has been decoded
\* into its two parts.
C22_Witness ==
    /\ imageData # <<>>
    /\ ~imageData[1].null
    /\ imageData[1].mimeType # DefaultMime
    /\ Len(imageData[1].base64Data) = MaxPayload
    /\ dataUri = EncodeDataUri(imageData[1].mimeType, imageData[1].base64Data)

\* C23: on the OpenAI path a response whose content is a string without an
\* image data URI is a result of its own: whenever a call is in flight and the
\* batch is not cancelled, such a response makes the worker call onText and
\* finish the slot, with no backoff wait, no further attempt and no error
\* image for it.
C23_TextOnlyIsResult ==
    \A w \in InFlight :
        (variant = "openai" /\ ~aborted) =>
            LET s     == OnResponse(Batch, w, Resp("string", <<"text">>),
                                    variant, aborted)
                i     == workers[w].index
                added == SubSeq(s.slotLog[i], Len(slotLog[i]) + 1,
                                Len(s.slotLog[i]))
            IN /\ Len(added) > 0 /\ added[1] = Ev("text", 1)
               /\ \A j \in DOMAIN added : added[j].e \notin {"wait", "call", "error"}

\* C24: two invocations that run at the same time do not interact.  Every
\* step belongs to one of them and changes nothing of the other (its queue,
\* its counter, its signal, its workers, its events), so that aborting one
\* stops no work of the other, and each one reports its own progress 1, 2, ...
\* over its own slots, however the steps of the two are interleaved.
C24_BatchesIndependent ==
    [][/\ other' # other => own' = own
       /\ own' # own => other' = other
       /\ \A j \in DOMAIN progressLog' : progressLog'[j] = <<j, batchSize>>
       /\ \A j \in DOMAIN other'.progressLog :
             other'.progressLog[j] = <<j, other.batchSize>>
       /\ \A j \in DOMAIN taskQueue' : taskQueue'[j] \in 0..(batchSize - 1)
       /\ \A j \in DOMAIN other'.taskQueue :
             other'.taskQueue[j] \in 0..(other.batchSize - 1)]_vars

\* The second invocation was aborted with its call in flight and has
\* resolved without completing its slot, while the first one, started before
\* that, went on through a retry and completed all of its slots.
C24_Witness ==
    /\ Finished /\ ~aborted
    /\ completedCount = batchSize
    /\ \E i \in DOMAIN slotLog : N(i, "wait") > 0
    /\ other.opState = "resolved" /\ other.aborted
    /\ other.completedCount = 0
    /\ Len(other.slotLog[0]) > 0

\* A response of the variant's own shape that carries the given parts.
WithParts(v, parts) ==
    IF v = "openai" THEN Resp("array", parts) ELSE Resp("parts", parts)

\* C25: whenever a call is in flight and the batch is not cancelled, a
\* response with two image parts makes the worker emit two success onImage
\* events for the slot of the call, in the order of the parts (a text part
\* before them is emitted first), then end the slot: one progress update, the
\* counter one higher, no further attempt and no error image.
C25_ImagePerPart ==
    \A w \in InFlight :
        ~aborted =>
            \A lead \in {<<>>, <<"text">>} :
                LET s == OnResponse(Batch, w,
                                    WithParts(variant, lead \o <<"image", "image">>),
                                    variant, aborted)
                    i == workers[w].index
                IN /\ s.slotLog[i] =
                         slotLog[i] \o [j \in 1..Len(lead) |-> Ev("text", 1)]
                             \o <<Ev("image", 1), Ev("image", 1), Ev("progress", 1)>>
                   /\ s.completedCount = completedCount + 1
                   /\ s.progressLog =
                         Append(progressLog, <<completedCount + 1, batchSize>>)

\* A slot whose first attempt was answered with two image parts: two images,
\* one progress update, the batch resolved with the counter at 1.
C25_Witness ==
    /\ Finished /\ ~aborted
    /\ batchSize = 1
    /\ slotLog[0] = <<Ev("claim", 1), Ev("call", 1), Ev("image", 1),
                      Ev("image", 1), Ev("progress", 1)>>
    /\ completedCount = 1
    /\ progressLog = <<(<<1, 1>>)>>

\* C26: the outbound message is built once, before the workers, and every
\* provider call of the batch, whatever its slot and its attempt, carries
\* that same message: the parts, the model name and the image options that
\* follow from the arguments; no step of a worker changes them.
C26_SamePayloadEveryCall ==
    [][/\ \A p \in sent' :
             /\ p.parts = userParts'
             /\ p.model = ModelName(variant, settings)
             /\ p.options = ImageOptions(variant, settings)
       /\ Started => message' = message]_vars

\* A slot that was tried four times under settings that name a model and an
\* aspect ratio: one payload was sent, four times.
C26_Witness ==
    /\ Finished /\ ~aborted
    /\ settings.model # "" /\ settings.aspectRatio # "Auto"
    /\ N(0, "call") = MAX_RETRIES + 1
    /\ Cardinality(sent) = 1

\* C27: for a base URL that is not blank, buildGeminiEndpoint returns a URL
\* that does not end in "/" and holds ":generateContent".  With base standing
\* for the URL without the blanks around it and the slashes at its end: a
\* base that holds the suffix is returned; a base that ends in /models/{m}
\* gets the suffix; a base that ends in /models gets /{model} and the suffix;
\* a base that ends in /v1 or /v1beta gets /models/{model} and the suffix.
\* The function applied to its result returns the result.
C27_EndpointShape ==
    endpoint # <<>> =>
        LET url   == endpoint[1]
            model == endpointArgs.modelName
            base  == StripEnd(Trim(endpointArgs.baseUrl), "/")
            named == /\ Len(base) >= 4
                     /\ base[Len(base)] # "/"
                     /\ SubSeq(base, Len(base) - 3, Len(base) - 1)
                           = <<"/", "models", "/">>
        IN /\ Trim(endpointArgs.baseUrl) # <<>> =>
                 /\ url # <<>> /\ url[Len(url)] # "/"
                 /\ Includes(url, GenerateContent)
                 /\ Includes(base, GenerateContent) => url = base
                 /\ (~Includes(base, GenerateContent) /\ named)
                       => url = base \o <<GenerateContent>>
                 /\ (~Includes(base, GenerateContent) /\ ~named
                        /\ EndsWith(base, <<"/", "models">>))
                       => url = base \o <<"/">> \o model \o <<GenerateContent>>
                 /\ (~Includes(base, GenerateContent) /\ ~named
                        /\ \E version \in {"v1", "v1beta"} :
                              EndsWith(base, <<"/", version>>))
                       => url = base \o <<"/", "models", "/">> \o model
                                   \o <<GenerateContent>>
           /\ buildGeminiEndpoint(url, model) = url

\* A base URL typed with blanks around it and slashes at its end, which stops
\* at the versioned root, has been completed.
C27_Witness ==
    /\ endpointArgs.baseUrl = <<" ">> \o Origin \o <<"/", "v1beta", "/", "/">> \o <<" ">>
    /\ endpoint = <<Origin \o <<"/", "v1beta", "/", "models", "/", "gemini",
                                 GenerateContent>>>>

\* C28: in every state, cancelled or not, no slot has both a success onImage
\* and an error onImage, and no provider call of a slot comes after a success
\* onImage of that slot.
C28_SuccessIsFinal ==
    \A i \in DOMAIN slotLog :
        LET log == slotLog[i]
        IN /\ ~(N(i, "image") >= 1 /\ N(i, "error") >= 1)
           /\ \A x \in 1..Len(log) :
                 log[x].e = "image" =>
                     \A y \in (x + 1)..Len(log) : log[y].e # "call"

\* A slot that failed twice and then succeeded has ended, and another slot of
\* the same batch ended with the error image.
C28_Witness ==
    /\ Finished /\ ~aborted
    /\ \E i \in DOMAIN slotLog :
          N(i, "call") = 3 /\ N(i, "image") = 1 /\ N(i, "error") = 0
    /\ \E i \in DOMAIN slotLog :
          N(i, "call") = MAX_RETRIES + 1 /\ N(i, "image") = 0 /\ N(i, "error") = 1

\* C29: the events of a slot come from its final attempt only: in every state
\* and in every variant, no onImage and no onText of a slot is followed, in
\* the slot's events, by a further provider call or by the error image; an
\* attempt that was counted as failed has emitted neither, also when its
\* response held text parts and no image.
C29_EventsFromFinalAttempt ==
    \A i \in DOMAIN slotLog :
        LET log == slotLog[i]
        IN \A x \in 1..Len(log) :
              log[x].e \in {"image", "text"} =>
                  \A y \in (x + 1)..Len(log) : log[y].e \notin {"call", "error"}

\* The slots of the given events that have a success or an error onImage.
WithTerminalImage(log) ==
    {i \in DOMAIN log : \E x \in 1..Len(log[i]) : log[i][x].e \in {"image", "error"}}

\* C30: in every state, cancelled or not, each onProgress(c, t) made so far
\* has t = batchSize and 1 <= c <= batchSize; a step that calls onProgress(c, t)
\* leaves at least c slots with a success or error onImage emitted; and the
\* counter changes only in a step that adds one to it and calls onProgress
\* with the new value.
C30_ProgressBounded ==
    /\ [](\A j \in DOMAIN progressLog :
             /\ progressLog[j][2] = batchSize
             /\ progressLog[j][1] \in 1..batchSize)
    /\ [][/\ progressLog' # progressLog =>
                 /\ Len(progressLog') = Len(progressLog) + 1
                 /\ progressLog'[Len(progressLog')][1]
                       <= Cardinality(WithTerminalImage(slotLog'))
          /\ completedCount' # completedCount =>
                 /\ completedCount' = completedCount + 1
                 /\ progressLog' = Append(progressLog,
                                          <<completedCount', batchSize>>)
          ]_vars

\* A cancelled batch of three has resolved with one progress update and two
\* slots that have an image: the second one came from a call that was in
\* flight when the batch was cancelled.
C30_Witness ==
    /\ Finished /\ aborted
    /\ batchSize = 3
    /\ progressLog = <<(<<1, 3>>)>>
    /\ Cardinality(WithTerminalImage(slotLog)) = 2

\* C31: a backoff wait that has started is not interrupted by cancellation.
\* A worker that waits stays in its wait in every step but the one in which
\* its own timer fires, the setting of the signal included; when the timer
\* fires with the signal set the worker returns, with no event; and the batch
\* is not resolved while a worker waits.
C31_WaitNotInterrupted ==
    /\ [](Finished => \A w \in DOMAIN workers : workers[w].pc # "wait")
    /\ [][\A w \in DOMAIN workers :
             workers[w].pc = "wait" =>
                 /\ workers'[w].pc = "wait" \/ DelayElapses(w)
                 /\ (aborted /\ workers'[w].pc # "wait") =>
                       /\ workers'[w].pc = "done"
                       /\ slotLog' = slotLog
          ]_vars

\* A batch that was cancelled while a worker waited has resolved: the last
\* event of that worker's slot is the wait.
C31_Witness ==
    /\ Finished /\ aborted
    /\ \E i \in DOMAIN slotLog :
          slotLog[i] # <<>> /\ Last(slotLog[i]).e = "wait"

\* The batch has started and nothing has come of it: every slot is in the
\* queue, no call was made, no event was emitted, every worker has returned.
NothingDone ==
    /\ taskQueue = [j \in 1..batchSize |-> j - 1]
    /\ sent = {}
    /\ \A i \in DOMAIN slotLog : slotLog[i] = <<>>
    /\ progressLog = <<>> /\ completedCount = 0
    /\ \A w \in DOMAIN workers : workers[w].pc = "done"

\* C32: a valid batch that starts with the cancellation signal already set
\* claims no slot, makes no provider call and emits no onImage, onText or
\* onProgress: its workers return at their first check, no later step changes
\* that, and the batch resolves in that state.
C32_CancelledBeforeStart ==
    /\ [][(aborted /\ opState = "idle" /\ Running') => NothingDone']_vars
    /\ [][(aborted /\ Running /\ NothingDone) => (Finished' /\ NothingDone')]_vars
    /\ (aborted /\ Running /\ NothingDone) ~> (Finished /\ NothingDone)

\* A batch of several slots that was cancelled before it started has
\* resolved with its queue untouched.
C32_Witness ==
    /\ Finished /\ aborted
    /\ batchSize = MaxLiveBatch
    /\ NothingDone

\* C33: slots are claimed from the head of the queue, in ascending order.  In
\* every state of a batch that passed pre-flight the claimed slots are
\* 0..i-1 for some i (their events begin with the claim) and the queue holds
\* the others, i..batchSize-1, in order (they have no event).
C33_ClaimedInOrder ==
    opState \in {"running", "resolved"} =>
        LET i == batchSize - Len(taskQueue)
        IN /\ i \in 0..batchSize
           /\ taskQueue = [j \in 1..(batchSize - i) |-> i + j - 1]
           /\ \A x \in DOMAIN slotLog :
                 IF x < i
                 THEN slotLog[x] # <<>> /\ slotLog[x][1] = Ev("claim", 1)
                 ELSE slotLog[x] = <<>>

\* A batch larger than the worker cap whose last slot has been claimed, by a
\* worker that had finished another slot: every slot is claimed once and the
\* queue is empty.
C33_Witness ==
    /\ Running
    /\ batchSize = BigBatch
    /\ Len(taskQueue) = 0
    /\ completedCount >= 1
    /\ \A x \in DOMAIN slotLog : N(x, "claim") = 1

\* C34: the Gemini and the OpenAI dispatcher are one state machine.  From the
\* same state of the pool, the same outcome of the call in flight (a failure,
\* or a response with the same parts) and the same state of the signal lead
\* every variant to the same claims, attempts, waits and events; and a
\* request fails pre-flight in one variant exactly if it does in the others.
C34_SameStateMachine ==
    \A v1 \in Variants, v2 \in Variants :
        /\ \A w \in InFlight :
              /\ OnResponse(Batch, w, Resp("throw", <<>>), v1, aborted)
                    = OnResponse(Batch, w, Resp("throw", <<>>), v2, aborted)
              /\ \A parts \in ContentShapes :
                    OnResponse(Batch, w, WithParts(v1, parts), v1, aborted)
                        = OnResponse(Batch, w, WithParts(v2, parts), v2, aborted)
        /\ Preflight(v1, prompt, history, uploadedImages).ok
              = Preflight(v2, prompt, history, uploadedImages).ok

\* C35: memory and storage agree.  After any sequence of updateProvider,
\* updateApiKey, updateBaseUrl and updateModel calls, with any arguments, the
\* providerConfig of the hook is the configuration its initializer would
\* compute from the storage.
C35_MemoryMatchesStorage == providerConfig = Initializer(localStorage)

\* The storage entries of a provider.
EntriesOf(selected) ==
    IF selected = "openai"
    THEN [apiKey |-> OPENAI_API_KEY, baseUrl |-> OPENAI_BASE_URL,
          model |-> OPENAI_MODEL]
    ELSE [apiKey |-> GEMINI_API_KEY, baseUrl |-> GEMINI_BASE_URL,
          model |-> GEMINI_MODEL]

\* C36: provider settings are isolated.  A call of updateApiKey, updateBaseUrl
\* or updateModel changes no storage entry but the key, the base URL or the
\* model of the provider selected when it is called, and so leaves the other
\* provider's entries and the selection as they were; a call of
\* updateProvider changes no entry but the selection.
C36_SettingsIsolated ==
    [][LET changed == {key \in STORAGE_KEYS : localStorage'[key] # localStorage[key]}
           mine    == EntriesOf(providerConfig.provider)
           op      == lastUpdate'.op
       IN /\ op = "updateProvider" => changed \subseteq {PROVIDER}
          /\ op \in {"updateApiKey", "updateApiKey-empty"}
                => changed \subseteq {mine.apiKey}
          /\ op = "updateBaseUrl" => changed \subseteq {mine.baseUrl}
          /\ op = "updateModel" => changed \subseteq {mine.model}
      ]_vars

\* With OpenAI selected, the model has just been set while Gemini's key, base
\* URL and model, written earlier in the session, are in the storage.
C36_Witness ==
    /\ lastUpdate.op = "updateModel"
    /\ providerConfig.provider = "openai"
    /\ localStorage[OPENAI_MODEL] = <<"model-1">>
    /\ localStorage[GEMINI_MODEL] = <<"">>
    /\ localStorage[GEMINI_API_KEY] = <<"key-2">>
    /\ localStorage[GEMINI_BASE_URL] = <<(<<"https:", "/", "/", "proxy">>)>>

\* C37: a call of updateApiKey with a non-empty key that validateApiKey
\* rejects throws a ValidationError and changes neither the providerConfig
\* nor any storage entry; a call with the empty string does not throw, sets
\* apiKey to the empty string and removes the selected provider's stored key,
\* and nothing else.
C37_ApiKeyUpdate ==
    [][/\ (lastUpdate'.op = "updateApiKey" /\ lastUpdate'.validation # "ok") =>
             /\ lastUpdate'.threw = "ValidationError"
             /\ providerConfig' = providerConfig
             /\ localStorage' = localStorage
       /\ lastUpdate'.op = "updateApiKey-empty" =>
             /\ lastUpdate'.threw = "none"
             /\ providerConfig' = [providerConfig EXCEPT !.apiKey = ""]
             /\ localStorage' =
                   [localStorage EXCEPT
                       ![EntriesOf(providerConfig.provider).apiKey] = <<>>]
      ]_vars

\* A key was rejected with an error that is no ValidationError: the call
\* threw a ValidationError and the key set before is still there, in memory
\* and in the storage.
C37_Witness ==
    /\ lastUpdate = [op |-> "updateApiKey", threw |-> "ValidationError",
                     validation |-> "Error"]
    /\ providerConfig.provider = "gemini"
    /\ providerConfig.apiKey = "key-2"
    /\ localStorage[GEMINI_API_KEY] = <<"key-2">>

====
